---- MODULE Spec2Model ----
(***************************************************************************)
(* State-machine model of smartphone/PiRotary.py: the rotary pulse         *)
(* decoder (dial_detect, pulse_count), the digit buffer (dialed_number),   *)
(* the command dispatcher (check_number), the line monitor (hangout) and   *)
(* the callback gate (set_callbacks, release_callbacks, cb_set_rotary,     *)
(* cb_set_hangout).                                                        *)
(*                                                                         *)
(* The GPIO layer is the environment: the three input pins change level at *)
(* any time; an edge calls the handler registered for the pin, and an edge *)
(* on a pin without a registered callback only changes the level.  A       *)
(* handler that blocks (speech, playback, amplifier sequence) is split at  *)
(* the blocking call, so that the pins can change while it runs.           *)
(***************************************************************************)
EXTENDS Integers, Sequences, FiniteSets, TLC

PI_HIGH == 1
PI_LOW == 0
max_numbers == 3

\* Bounds of the model
MaxPulses == 21      \* largest raw pulse counter one rotation is let to reach
MaxTracks == 3       \* largest track count of the playlist file
MaxRegs == 2         \* live registrations of one callback are counted up to here

VARIABLES
    pin_phone_hangout,      \* input level of the line switch
    pin_dial_detect,        \* input level of the dial-in-progress contact
    pin_hangout_led,        \* output: ready indicator
    pin_dialer_led,         \* output: per-pulse indicator
    pin_dial_counter_led,   \* output: "dialing enabled" indicator
    cb_hangout_handler,     \* TRUE: the stored handle is a live registration
    cb_dialer_handler,
    cb_counter_handler,
    registered,             \* live registrations per handler (pigpio's list)
    ampli_status,
    dialer_status,
    pulses,
    dialed_number,          \* sequence of decimal digits (the string)
    tracks,
    track_position,
    is_playing,
    pc,                     \* where the running handler is blocked, or "idle"
    ampli_power,            \* expected power of the amplifier (toggled)
    \* observation of the run (written, never read, by the program)
    cmd,                    \* what the last run of dial_detect dispatched
    appended,               \* digits the last run of dial_detect queued
    rot_full,               \* "cleared": the rotation in progress began on a
                            \* full buffer; "requeued": it has ended and its
                            \* digit was queued; "no" otherwise
    pos_before,             \* track_position when cmd was matched (0: no cmd)
    played,                 \* index of the last track cmd played, -1 if none
    spoken,                 \* what list_all_tracks has announced so far: 0
                            \* for its opening message, then title numbers
    ampli_runs,             \* runs of ampli_on_off in the current/last action
    line_dropped            \* the line went on-hook during the running action

vars == <<pin_phone_hangout, pin_dial_detect, pin_hangout_led, pin_dialer_led,
          pin_dial_counter_led, cb_hangout_handler, cb_dialer_handler,
          cb_counter_handler, registered, ampli_status, dialer_status, pulses,
          dialed_number, tracks, track_position, is_playing, pc, ampli_power,
          cmd, appended, rot_full, pos_before, played, spoken, ampli_runs,
          line_dropped>>

pinsIn == <<pin_phone_hangout, pin_dial_detect>>
gateVars == <<cb_hangout_handler, cb_dialer_handler, cb_counter_handler,
              registered, pin_dial_counter_led>>
ampVars == <<ampli_status, ampli_power, ampli_runs, is_playing>>
obsVars == <<cmd, appended, rot_full, pos_before, played, spoken, line_dropped>>

Handlers == {"hangout", "dial_detect", "pulse_count"}

----------------------------------------------------------------------------
\* Pure helpers

\* str(n) for n >= 0, as a sequence of decimal digits
RECURSIVE str(_)
str(n) == IF n < 10 THEN <<n>> ELSE Append(str(n \div 10), n % 10)

\* int(s) for a non-empty digit string
RECURSIVE int(_)
int(s) == IF Len(s) = 0 THEN 0
          ELSE 10 * int(SubSeq(s, 1, Len(s) - 1)) + s[Len(s)]

\* The digits dial_detect queues for a raw pulse counter p # 0:
\* 20 is mapped to 0, then str(int(pulses / 2))
DecodeNoZeroMapMutant(p) == str(p \div 2)
Decode(p) == str((IF p = 20 THEN 0 ELSE p) \div 2)

\* The value left in pulses by the decoding (pulses = 0 when it was 20)
PulsesAfterDecode(p) == IF p = 20 THEN 0 ELSE p

\* The first branch of check_number's if/elif chain that matches the buffer
Command(number, ntracks) ==
    LET v == int(number) IN
    IF Len(number) = 0 THEN "none"
    ELSE IF v = 666 THEN "reset"
    ELSE IF v = 321 THEN "next"
    ELSE IF v = 123 THEN "play_all"
    ELSE IF v = 124 THEN "list"
    ELSE IF v <= ntracks + 400 /\ v > 400 THEN "select"
    ELSE IF v = 111 THEN "help"
    ELSE IF v = 999 THEN "reboot"
    ELSE IF v = 100 THEN "weather"
    ELSE "none"

----------------------------------------------------------------------------
\* The callback gate.  A gate value is the record of the three handles, the
\* live registrations and the "dialing enabled" LED.

Gate == [h |-> cb_hangout_handler, d |-> cb_dialer_handler,
         c |-> cb_counter_handler, reg |-> registered,
         led |-> pin_dial_counter_led]

\* pi.callback(pin, EITHER_EDGE, f): one more live registration of f
callback(reg, f) ==
    [reg EXCEPT ![f] = IF @ < MaxRegs THEN @ + 1 ELSE @]

CancelNothingMutant(reg, live, f) == reg

\* handle.cancel(): removes the registration the handle stands for, if live
cancel(reg, live, f) ==
    IF live /\ reg[f] > 0 THEN [reg EXCEPT ![f] = @ - 1] ELSE reg

set_callbacks(g) ==
    [h |-> TRUE, d |-> TRUE, c |-> TRUE,
     reg |-> callback(callback(callback(g.reg, "hangout"), "dial_detect"),
                      "pulse_count"),
     led |-> PI_HIGH]

ReleaseKeepsRotaryMutant(g) ==
    [h |-> FALSE, d |-> g.d, c |-> g.c,
     reg |-> cancel(g.reg, g.h, "hangout"),
     led |-> PI_LOW]
ReleaseKeepsHangoutMutant(g) ==
    [h |-> g.h, d |-> FALSE, c |-> FALSE,
     reg |-> cancel(cancel(g.reg, g.d, "dial_detect"), g.c, "pulse_count"),
     led |-> PI_LOW]
release_callbacks(g) ==
    [h |-> FALSE, d |-> FALSE, c |-> FALSE,
     reg |-> cancel(cancel(cancel(g.reg, g.h, "hangout"),
                           g.d, "dial_detect"), g.c, "pulse_count"),
     led |-> PI_LOW]

cb_release_rotary(g) ==
    [g EXCEPT !.d = FALSE, !.c = FALSE,
              !.reg = cancel(cancel(g.reg, g.c, "pulse_count"),
                             g.d, "dial_detect"),
              !.led = PI_LOW]

SetRotaryDialOnlyMutant(g) ==
    [g EXCEPT !.d = TRUE,
              !.reg = callback(g.reg, "dial_detect"),
              !.led = PI_HIGH]
cb_set_rotary(g) ==
    [g EXCEPT !.d = TRUE, !.c = TRUE,
              !.reg = callback(callback(g.reg, "dial_detect"), "pulse_count"),
              !.led = PI_HIGH]

cb_set_hangout(g) ==
    [g EXCEPT !.h = TRUE, !.reg = callback(g.reg, "hangout")]

\* reinit() on the record of what it names: the three LEDs go low and the
\* buffer is emptied.  track_position and is_playing are not declared global
\* in reinit, so its assignments to them make locals and the globals (the
\* fields position and playing) keep their values.
ReinitState == [counter_led |-> pin_dial_counter_led,
                hangout_led |-> pin_hangout_led,
                dialer_led |-> pin_dialer_led,
                number |-> dialed_number,
                position |-> track_position,
                playing |-> is_playing]

reinit(r) ==
    [r EXCEPT !.counter_led = PI_LOW, !.hangout_led = PI_LOW,
              !.dialer_led = PI_LOW, !.number = <<>>]

SetGate(g) ==
    /\ cb_hangout_handler' = g.h
    /\ cb_dialer_handler' = g.d
    /\ cb_counter_handler' = g.c
    /\ registered' = g.reg
    /\ pin_dial_counter_led' = g.led

\* The tail of every action branch of check_number: cb_set_hangout(), then
\* cb_set_rotary() if pin_hangout_led reads high
RestoreAfterAction(g, led) ==
    IF led = PI_HIGH THEN cb_set_rotary(cb_set_hangout(g))
    ELSE cb_set_hangout(g)

----------------------------------------------------------------------------
Init ==
    /\ pin_phone_hangout \in {PI_LOW, PI_HIGH}
    /\ pin_dial_detect = PI_LOW
    /\ pin_hangout_led = PI_LOW
    /\ pin_dialer_led = PI_LOW
    /\ pin_dial_counter_led = PI_LOW
    /\ cb_hangout_handler = TRUE
    /\ cb_dialer_handler = TRUE
    /\ cb_counter_handler = TRUE
    /\ registered = [f \in Handlers |-> 1]
    /\ ampli_status = FALSE
    /\ dialer_status = PI_LOW
    /\ pulses = 0
    /\ dialed_number = <<>>
    /\ tracks \in 1..MaxTracks
    /\ track_position = 0
    /\ is_playing = TRUE
    /\ pc = "idle"
    /\ ampli_power = FALSE
    /\ cmd = "none"
    /\ appended = <<>>
    /\ rot_full = "no"
    /\ pos_before = 0
    /\ played = -1
    /\ spoken = <<>>
    /\ ampli_runs = 0
    /\ line_dropped = FALSE


----------------------------------------------------------------------------
\* The amplifier bracket shared by every user-facing action

Amp == [status |-> ampli_status, power |-> ampli_power, runs |-> ampli_runs]

\* ampli_on_off(): the power button is pulsed (the amplifier toggles), the
\* mode button is pulsed, ampli_status is set to False
ampli_on_off(a) ==
    [status |-> FALSE, power |-> ~a.power, runs |-> a.runs + 1]

SetAmp(a) ==
    /\ ampli_status' = a.status
    /\ ampli_power' = a.power
    /\ ampli_runs' = a.runs

\* "is_playing = True; ampli_on_off()" at the head of an action
PowerUp ==
    /\ is_playing' = TRUE
    /\ SetAmp(ampli_on_off([Amp EXCEPT !.runs = 0]))

PowerDownSkippedMutant ==
    /\ SetAmp(Amp)
    /\ is_playing' = FALSE

\* "if is_playing is True: ampli_on_off(); is_playing = False" at its end
PowerDown ==
    /\ SetAmp(IF is_playing THEN ampli_on_off(Amp) ELSE Amp)
    /\ is_playing' = (IF is_playing THEN FALSE ELSE is_playing)

----------------------------------------------------------------------------
\* pc is "idle" when no handler runs; "pickup", "hangup" while hangout speaks;
\* "play_track", "pa_loop", "pa_track", "pa_end", "list", "help", "weather"
\* while the action check_number dispatched runs; "crashed" once a handler
\* has ended by an exception (the callback thread is gone); "halted" once
\* the reboot command has been run.
\* The process runs until the reboot command has been issued
Running == pc # "halted"

PlayAllPcs == {"pa_loop", "pa_track", "pa_end"}
DispatchPcs == {"play_track", "list", "help", "weather"} \cup PlayAllPcs

\* hangout(), pin_phone_hangout read high: release_callbacks, ready LED on,
\* play_tts_sentence(0) up to the speech
LineUp ==
    /\ Running
    /\ pin_phone_hangout = PI_LOW
    /\ pin_phone_hangout' = PI_HIGH
    /\ \/ /\ registered["hangout"] > 0
          /\ SetGate(release_callbacks(Gate))
          /\ pin_hangout_led' = PI_HIGH
          /\ PowerUp
          /\ pc' = "pickup"
       \/ /\ registered["hangout"] = 0
          /\ UNCHANGED <<gateVars, pin_hangout_led, ampVars, pc>>
    /\ UNCHANGED <<pin_dial_detect, pin_dialer_led, dialer_status, pulses,
                   dialed_number, tracks, track_position, obsVars>>

\* hangout(), the speech over: the amplifier bracket closes, set_callbacks
PickupReturn ==
    /\ pc = "pickup"
    /\ PowerDown
    /\ SetGate(set_callbacks(Gate))
    /\ pc' = "idle"
    /\ UNCHANGED <<pinsIn, pin_hangout_led, pin_dialer_led, dialer_status,
                   pulses, dialed_number, tracks, track_position, obsVars>>

\* hangout(), pin_phone_hangout read low: release_callbacks,
\* play_tts_sentence(1) up to the speech
LineDown ==
    /\ Running
    /\ pin_phone_hangout = PI_HIGH
    /\ pin_phone_hangout' = PI_LOW
    /\ line_dropped' = (IF pc \in DispatchPcs THEN TRUE ELSE line_dropped)
    /\ \/ /\ registered["hangout"] > 0
          /\ SetGate(release_callbacks(Gate))
          /\ PowerUp
          /\ pc' = "hangup"
       \/ /\ registered["hangout"] = 0
          /\ UNCHANGED <<gateVars, ampVars, pc>>
    /\ UNCHANGED <<pin_dial_detect, pin_hangout_led, pin_dialer_led,
                   dialer_status, pulses, dialed_number, tracks,
                   track_position, cmd, appended, rot_full, pos_before, played,
                   spoken>>

\* hangout(), the speech over: ready LED off, reinit, cb_set_hangout
HangupReturn ==
    /\ pc = "hangup"
    /\ PowerDown
    /\ LET r == reinit([ReinitState EXCEPT !.hangout_led = PI_LOW,
                                           !.playing = is_playing'])
       IN /\ pin_hangout_led' = r.hangout_led
          /\ pin_dialer_led' = r.dialer_led
          /\ dialed_number' = r.number
          /\ track_position' = r.position
          /\ is_playing' = r.playing
          /\ SetGate(cb_set_hangout([Gate EXCEPT !.led = r.counter_led]))
    /\ pc' = "idle"
    /\ UNCHANGED <<pinsIn, dialer_status, pulses, tracks, obsVars>>

\* pulse_count(): counts while dialer_status is high
PulseEdge ==
    /\ Running
    /\ registered["pulse_count"] > 0
    /\ dialer_status = PI_HIGH
    /\ pulses < MaxPulses
    /\ pulses' = pulses + 1
    /\ UNCHANGED <<pinsIn, pin_hangout_led, pin_dialer_led, gateVars, ampVars,
                   dialer_status, dialed_number, tracks, track_position, pc,
                   obsVars>>


----------------------------------------------------------------------------
\* dial_detect()

\* "if len(dialed_number) >= max_numbers: dialed_number = ''"
OverflowKeepsMutant(number) == number
Overflow(number) == IF Len(number) >= max_numbers THEN <<>> ELSE number

\* dial_detect is called: its callback is registered
DialDetectCalled == Running /\ registered["dial_detect"] > 0

\* What a call of dial_detect that queues nothing leaves to observe
NothingQueued ==
    /\ cmd' = "none"
    /\ appended' = <<>>
    /\ pos_before' = 0
    /\ played' = -1
    /\ spoken' = <<>>

\* An edge of the dial contact that reaches no handler
DialEdgeUnheard ==
    /\ Running
    /\ registered["dial_detect"] = 0
    /\ pin_dial_detect' = 1 - pin_dial_detect
    /\ rot_full' = "no"
    /\ UNCHANGED <<pin_phone_hangout, pin_hangout_led, pin_dialer_led,
                   gateVars, ampVars, dialer_status, pulses, dialed_number,
                   tracks, track_position, pc, cmd, appended, pos_before,
                   played, spoken, line_dropped>>

\* dial_detect() with the line read on-hook: nothing is done
DialEdgeOnHook ==
    /\ DialDetectCalled
    /\ pin_phone_hangout = PI_LOW
    /\ pin_dial_detect' = 1 - pin_dial_detect
    /\ NothingQueued
    /\ rot_full' = "no"
    /\ UNCHANGED <<pin_phone_hangout, pin_hangout_led, pin_dialer_led,
                   gateVars, ampVars, dialer_status, pulses, dialed_number,
                   tracks, track_position, pc, line_dropped>>

\* dial_detect() off-hook, the dial contact read high: the pulse counter is
\* reset; a full buffer is emptied; with pulses = 0 nothing is queued
DialRise ==
    /\ DialDetectCalled
    /\ pin_phone_hangout = PI_HIGH
    /\ pin_dial_detect = PI_LOW
    /\ pin_dial_detect' = PI_HIGH
    /\ dialer_status' = PI_HIGH
    /\ pulses' = 0
    /\ dialed_number' = Overflow(dialed_number)
    /\ pin_dialer_led' = PI_LOW
    /\ NothingQueued
    /\ rot_full' = (IF Len(dialed_number) >= max_numbers THEN "cleared"
                    ELSE "no")
    /\ UNCHANGED <<pin_phone_hangout, pin_hangout_led, gateVars, ampVars,
                   tracks, track_position, pc, line_dropped>>

\* dial_detect() off-hook, the dial contact read low
DialFallCalled ==
    /\ DialDetectCalled
    /\ pin_phone_hangout = PI_HIGH
    /\ pin_dial_detect = PI_HIGH
    /\ pin_dial_detect' = PI_LOW
    /\ dialer_status' = PI_LOW

\* ... on a full buffer: the buffer is emptied and nothing is queued
DialFallFull ==
    /\ DialFallCalled
    /\ Len(dialed_number) >= max_numbers
    /\ dialed_number' = Overflow(dialed_number)
    /\ rot_full' = "no"
    /\ pin_dialer_led' = PI_LOW
    /\ NothingQueued
    /\ UNCHANGED <<pin_phone_hangout, pin_hangout_led, gateVars, ampVars,
                   pulses, tracks, track_position, pc, line_dropped>>

\* "if pulses is not 0": the rotation has counted pulses
CountedAlwaysMutant(p) == TRUE
Counted(p) == p # 0

\* ... with no pulse counted: nothing is queued
DialFallNoPulse ==
    /\ DialFallCalled
    /\ Len(dialed_number) < max_numbers
    /\ ~Counted(pulses)
    /\ rot_full' = "no"
    /\ pin_dialer_led' = PI_LOW
    /\ NothingQueued
    /\ UNCHANGED <<pin_phone_hangout, pin_hangout_led, gateVars, ampVars,
                   pulses, dialed_number, tracks, track_position, pc,
                   line_dropped>>

\* The buffer as dial_detect hands it to check_number
Queued == dialed_number \o Decode(pulses)

\* ... with pulses counted: the digit is queued and check_number is called
\* with the command c matched
DialFallQueue(c) ==
    /\ DialFallCalled
    /\ Len(dialed_number) < max_numbers
    /\ Counted(pulses)
    /\ pulses' = PulsesAfterDecode(pulses)
    /\ Command(Queued, tracks) = c
    /\ cmd' = c
    /\ appended' = Decode(pulses)
    /\ pos_before' = (IF c = "none" THEN 0 ELSE track_position)
    /\ rot_full' = (IF rot_full = "cleared" THEN "requeued" ELSE "no")

\* check_number(): no branch matches
QueueDigit ==
    /\ DialFallQueue("none")
    /\ dialed_number' = Queued
    /\ pin_dialer_led' = PI_LOW
    /\ played' = -1
    /\ spoken' = <<>>
    /\ UNCHANGED <<pin_phone_hangout, pin_hangout_led, gateVars, ampVars,
                   tracks, track_position, pc, line_dropped>>

\* check_number(): 666, the buffer is emptied and reinit is called
Reset ==
    /\ DialFallQueue("reset")
    /\ LET r == reinit([ReinitState EXCEPT !.number = <<>>])
       IN /\ pin_dial_counter_led' = r.counter_led
          /\ pin_hangout_led' = r.hangout_led
          /\ pin_dialer_led' = r.dialer_led
          /\ dialed_number' = r.number
          /\ track_position' = r.position
          /\ is_playing' = r.playing
    /\ played' = -1
    /\ spoken' = <<>>
    /\ UNCHANGED <<pin_phone_hangout, cb_hangout_handler, cb_dialer_handler,
                   cb_counter_handler, registered, ampli_status, ampli_power,
                   ampli_runs, tracks, pc, line_dropped>>

\* check_number(): 999, the reboot command is run
Reboot ==
    /\ DialFallQueue("reboot")
    /\ dialed_number' = Queued
    /\ pc' = "halted"
    /\ played' = -1
    /\ spoken' = <<>>
    /\ UNCHANGED <<pin_phone_hangout, pin_hangout_led, pin_dialer_led,
                   gateVars, ampVars, tracks, track_position, line_dropped>>


----------------------------------------------------------------------------
\* The playing and speaking actions check_number dispatches.  Each branch is
\* release_callbacks(); <action>; cb_set_hangout(); cb_set_rotary() if
\* pin_hangout_led reads high.

\* play_track() up to the playing of the track at position p: the amplifier
\* bracket opens, then track_titles[p] and track_list[p] are read, which
\* raises IndexError for p outside the playlist and ends the handler there
PlayTrackAt(p) ==
    /\ SetGate(release_callbacks(Gate))
    /\ PowerUp
    /\ track_position' = p
    /\ IF p < tracks
       THEN pc' = "play_track" /\ played' = p
       ELSE pc' = "crashed" /\ played' = -1
    /\ spoken' = <<>>
    /\ dialed_number' = Queued
    /\ UNCHANGED <<pin_phone_hangout, pin_hangout_led, pin_dialer_led, tracks,
                   line_dropped>>

\* check_number(): 321
NextTrack ==
    /\ DialFallQueue("next")
    /\ PlayTrackAt(track_position)

\* check_number(): 401 .. 400 + tracks
SelectTrack ==
    /\ DialFallQueue("select")
    /\ PlayTrackAt(int(Queued) - 401)

\* play_track() after the playing: the position moves on and wraps
AdvanceNoWrapMutant(p, n) == p + 1
Advance(p, n) == IF p + 1 = n THEN 0 ELSE p + 1

\* The end of a dispatched action: the amplifier bracket closes, check_number
\* restores the callbacks, dial_detect writes the dialer LED low
ActionReturn ==
    /\ PowerDown
    /\ SetGate(RestoreAfterAction(Gate, pin_hangout_led))
    /\ pin_dialer_led' = PI_LOW
    /\ pc' = "idle"
    /\ line_dropped' = FALSE

PlayTrackReturn ==
    /\ pc = "play_track"
    /\ track_position' = Advance(track_position, tracks)
    /\ ActionReturn
    /\ UNCHANGED <<pinsIn, pin_hangout_led, dialer_status, pulses,
                   dialed_number, tracks, cmd, appended, rot_full, pos_before,
                   played, spoken>>

\* check_number(): 123.  play_all_tracks() up to its loop: the amplifier
\* bracket opens, the position is set to 0, the opening message is spoken
PlayAll ==
    /\ DialFallQueue("play_all")
    /\ SetGate(release_callbacks(Gate))
    /\ PowerUp
    /\ track_position' = 0
    /\ line_dropped' = FALSE
    /\ pc' = "pa_loop"
    /\ dialed_number' = Queued
    /\ played' = -1
    /\ spoken' = <<>>
    /\ UNCHANGED <<pin_phone_hangout, pin_hangout_led, pin_dialer_led, tracks>>

\* while track_position < tracks: the title is announced, the track played
PlayAllStartTrack ==
    /\ pc = "pa_loop"
    /\ track_position < tracks
    /\ pc' = "pa_track"
    /\ played' = track_position
    /\ UNCHANGED <<pinsIn, pin_hangout_led, pin_dialer_led, gateVars, ampVars,
                   dialer_status, pulses, dialed_number, tracks,
                   track_position, cmd, appended, rot_full, pos_before,
                   spoken, line_dropped>>

\* The loop's test after a track: break when pin_phone_hangout reads low
BreakNeverMutant(line) == FALSE
Break(line) == line = PI_LOW

\* The track is over: track_position += 1, then the line is read
PlayAllEndTrack ==
    /\ pc = "pa_track"
    /\ track_position' = track_position + 1
    /\ pc' = (IF Break(pin_phone_hangout) THEN "pa_end" ELSE "pa_loop")
    /\ UNCHANGED <<pinsIn, pin_hangout_led, pin_dialer_led, gateVars, ampVars,
                   dialer_status, pulses, dialed_number, tracks, obsVars>>

\* The loop is left (by its test or by break)
PlayAllReturn ==
    /\ \/ pc = "pa_end"
       \/ pc = "pa_loop" /\ track_position >= tracks
    /\ ActionReturn
    /\ UNCHANGED <<pinsIn, pin_hangout_led, dialer_status, pulses,
                   dialed_number, tracks, track_position, cmd, appended,
                   rot_full, pos_before, played, spoken>>

\* check_number(): 124, 111, 100.  list_all_tracks(), say_help() and
\* get_weather() up to their speech: the amplifier bracket opens
Speak ==
    /\ \E c \in {"list", "help", "weather"} :
          DialFallQueue(c) /\ pc' = c
    /\ SetGate(release_callbacks(Gate))
    /\ PowerUp
    /\ dialed_number' = Queued
    /\ played' = -1
    /\ spoken' = (IF pc' = "list" THEN <<0>> ELSE <<>>)
    /\ UNCHANGED <<pin_phone_hangout, pin_hangout_led, pin_dialer_led, tracks,
                   track_position, line_dropped>>

\* The number list_all_tracks announces for track_titles[counter]
TitleCountFromZeroMutant(counter) == counter
Title(counter) == counter + 1

\* list_all_tracks(): "while counter < tracks" announces the next title; the
\* local counter is the number of titles announced so far
counter == Len(spoken) - 1

ListNextTitle ==
    /\ pc = "list"
    /\ counter < tracks
    /\ spoken' = Append(spoken, Title(counter))
    /\ UNCHANGED <<pinsIn, pin_hangout_led, pin_dialer_led, gateVars, ampVars,
                   dialer_status, pulses, dialed_number, tracks,
                   track_position, pc, cmd, appended, rot_full, pos_before,
                   played, line_dropped>>

SpeakReturn ==
    /\ pc \in {"list", "help", "weather"}
    /\ pc = "list" => counter >= tracks
    /\ ActionReturn
    /\ UNCHANGED <<pinsIn, pin_hangout_led, dialer_status, pulses,
                   dialed_number, tracks, track_position, cmd, appended,
                   rot_full, pos_before, played, spoken>>

----------------------------------------------------------------------------
Next ==
    \/ LineUp
    \/ PickupReturn
    \/ LineDown
    \/ HangupReturn
    \/ PulseEdge
    \/ DialEdgeUnheard
    \/ DialEdgeOnHook
    \/ DialRise
    \/ DialFallFull
    \/ DialFallNoPulse
    \/ QueueDigit
    \/ Reset
    \/ Reboot
    \/ NextTrack
    \/ SelectTrack
    \/ PlayTrackReturn
    \/ PlayAll
    \/ PlayAllStartTrack
    \/ PlayAllEndTrack
    \/ PlayAllReturn
    \/ Speak
    \/ ListNextTitle
    \/ SpeakReturn

Spec == Init /\ [][Next]_vars

TypeOK ==
    /\ pin_phone_hangout \in {PI_LOW, PI_HIGH}
    /\ pin_dial_detect \in {PI_LOW, PI_HIGH}
    /\ registered \in [Handlers -> 0..MaxRegs]
    /\ pulses \in 0..MaxPulses
    /\ track_position \in 0..tracks
    /\ ampli_runs \in 0..2


----------------------------------------------------------------------------
\* Properties

\* A step in which dial_detect runs off-hook on the falling edge of the dial
\* contact, that is, a rotation is completed off-hook
RotationCompleted ==
    /\ DialDetectCalled
    /\ pin_phone_hangout = PI_HIGH
    /\ pin_dial_detect = PI_HIGH
    /\ pin_dial_detect' = PI_LOW

\* The raw counts of a well-formed rotation: two edges per pulse
EvenCounts == {2 * d : d \in 1..10}

\* A step in which a dispatched action returns to check_number
ActionReturns == pc \in DispatchPcs /\ pc' = "idle"

\* C1: in every reachable state the buffer holds at most max_numbers (3)
\* digits, whatever the raw pulse count of each rotation.
BufferWithinCapacity == Len(dialed_number) <= max_numbers

\* C2: a rotation completed off-hook with raw pulse counter P queues the
\* digit 0 if P = 20 and the digit P/2 for every even P in 2..18 (the buffer
\* is the old buffer with that digit appended, unless the command 666 it
\* completes empties it).
DigitDecoded ==
    [][\A P \in EvenCounts :
          (RotationCompleted /\ Len(dialed_number) < max_numbers /\ pulses = P)
          => LET d == IF P = 20 THEN 0 ELSE P \div 2
             IN /\ appended' = <<d>>
                /\ cmd' # "reset" => dialed_number' = Append(dialed_number, d)]_vars

\* C2 witness: 9 was dialed with 18 raw pulses, then 0 with 20
DigitDecodedWitness ==
    /\ dialed_number = <<9, 0>>
    /\ appended = <<0>>
    /\ pulses = 0

\* C3: once 666 has been dispatched the buffer is empty and the track
\* position is 0, whatever the position was before.
ResetClearsPosition ==
    cmd = "reset" => (dialed_number = <<>> /\ track_position = 0)

\* C4: a next-track command (321) dispatched at play position p plays the
\* track at p and leaves the position at (p + 1) mod tracks, for every
\* reachable p.
NextTrackAdvances ==
    (cmd = "next" /\ pc \in {"idle", "crashed"})
    => /\ pc = "idle"
       /\ played = pos_before
       /\ track_position = (pos_before + 1) % tracks

\* C5 as stated: a track-select command 400+k plays a track and leaves
\* track_position at the value it had before the command.
SelectKeepsPosition ==
    (cmd = "select" /\ pc = "idle")
    => (played \in 0..(tracks - 1) /\ track_position = pos_before)

\* C5 as the code has it: a track-select command 400+k (1 <= k <= tracks)
\* plays the track at index k-1 and leaves track_position at k mod tracks,
\* the index after the selected track.
SelectPlaysAndAdvances ==
    /\ [](cmd = "select" => pc \in {"play_track", "idle", "pickup", "hangup"})
    /\ [][(cmd = "select" /\ pc = "play_track" /\ pc' = "idle")
          => LET k == int(dialed_number) - 400
             IN /\ k \in 1..tracks
                /\ played' = k - 1
                /\ track_position' = k % tracks]_vars

\* C5 witness: 402 was dialed with two tracks; track 1 was played and the
\* position wrapped to 0
SelectWitness ==
    /\ cmd = "select"
    /\ pc = "idle"
    /\ dialed_number = <<4, 0, 2>>
    /\ played = 1
    /\ track_position = 0

\* C6: a rotation with a non-zero pulse count dialed off-hook on a buffer of
\* 3 digits empties the buffer when it begins, and when it has completed the
\* buffer holds exactly the digit it dialed.
OverflowRestarts ==
    [][/\ (DialDetectCalled /\ pin_phone_hangout = PI_HIGH
           /\ pin_dial_detect = PI_LOW /\ pin_dial_detect' = PI_HIGH
           /\ Len(dialed_number) >= max_numbers)
          => dialed_number' = <<>>
       /\ (RotationCompleted /\ rot_full = "cleared" /\ pulses # 0)
          => /\ dialed_number' = Decode(pulses)
             /\ appended' = Decode(pulses)
             /\ pulses \in EvenCounts => Len(dialed_number') = 1]_vars

\* C6 witness: a rotation that began on a full buffer has queued its digit 3
OverflowWitness ==
    /\ rot_full = "requeued"
    /\ dialed_number = <<3>>
    /\ pulses = 6

\* C7 as stated: once the line has gone on-hook while play-all runs, no
\* further track is started.
PlayAllStopsOnHangup ==
    [][line_dropped => ~(pc # "pa_track" /\ pc' = "pa_track")]_vars

\* C7 as the code has it: if the line is on-hook when play-all reads it at
\* the end of a track, no further track is started; and whenever play-all
\* returns, the amplifier sequence has run a second time, the amplifier is
\* down, is_playing and ampli_status are false.
PlayAllBreaksOnHook ==
    [][/\ (pc = "pa_track" /\ pc' # "pa_track" /\ pin_phone_hangout = PI_LOW)
          => pc' = "pa_end"
       /\ pc = "pa_end" => pc' \in {"pa_end", "idle"}
       /\ (pc \in PlayAllPcs /\ pc' = "idle")
          => /\ ampli_runs' = 2
             /\ ~ampli_power'
             /\ ~is_playing'
             /\ ~ampli_status']_vars

\* C7 witness: play-all has returned after its first track of two, the line
\* on-hook
PlayAllWitness ==
    /\ cmd = "play_all"
    /\ pc = "idle"
    /\ pin_phone_hangout = PI_LOW
    /\ tracks = 2
    /\ track_position = 1
    /\ ampli_runs = 2
    /\ ~is_playing

\* C8: an action that returns with the line on-hook does not register the
\* dial-detect and pulse-count callbacks again.
NoDialingAfterHangup ==
    [][(ActionReturns /\ pin_phone_hangout = PI_LOW)
       => (registered'["dial_detect"] = 0 /\ registered'["pulse_count"] = 0)]_vars

\* C9: whenever no handler is running (and the reboot has not been issued),
\* the line-monitor callback is registered.
HangoutRestored ==
    pc \in {"idle", "crashed"} => registered["hangout"] > 0

\* C10: while a dispatched action runs, dial_detect and pulse_count are not
\* registered and do not run: the buffer, the pulse counter, the dialer
\* state and the record of the last dial_detect call do not change until the
\* action has returned.
DispatchOrdered ==
    /\ [](pc \in DispatchPcs
          => (registered["dial_detect"] = 0 /\ registered["pulse_count"] = 0))
    /\ [][(pc \in DispatchPcs)
          => UNCHANGED <<dialed_number, pulses, dialer_status, cmd,
                         appended>>]_vars

\* C10 witness: the dial contact went active while a track plays and no
\* rotation has been started in the decoder
DispatchOrderedWitness ==
    /\ pc = "play_track"
    /\ pin_dial_detect = PI_HIGH
    /\ dialer_status = PI_LOW
    /\ pulses # 0

\* C11: at the boundary of every gate operation (set_callbacks,
\* release_callbacks, cb_set_rotary, cb_release_rotary, cb_set_hangout) the
\* dial_detect callback is registered if and only if the pulse_count callback
\* is registered, and their two handles are live together
RotaryPaired ==
    /\ (registered["dial_detect"] > 0) <=> (registered["pulse_count"] > 0)
    /\ cb_dialer_handler = cb_counter_handler

\* cb_set_rotary has put both back after an action that released both
RotaryPairedWitness ==
    /\ cmd = "help"
    /\ pc = "idle"
    /\ registered["dial_detect"] = 1
    /\ registered["pulse_count"] = 1
    /\ registered["hangout"] = 1

\* C12 as stated: when an action the dispatcher matched returns, the buffer
\* is empty
BufferEmptyAfterAction ==
    [][ActionReturns => dialed_number' = <<>>]_vars

\* C12: when an action the dispatcher matched returns, the buffer still
\* holds the digits of its command; the reset command alone empties it.  The
\* next run of dial_detect with the line off-hook finds the buffer at
\* capacity and empties it.  The list-titles action has spoken its opening
\* message and then the titles 1 .. tracks in that order.
BufferKeptAfterAction ==
    [][/\ ActionReturns
           => /\ dialed_number' = dialed_number
              /\ Len(dialed_number') >= max_numbers
              /\ Command(dialed_number', tracks) = cmd
       /\ (RotationCompleted /\ cmd' = "reset") => dialed_number' = <<>>
       /\ (/\ DialDetectCalled
           /\ pin_phone_hangout = PI_HIGH
           /\ pin_dial_detect' # pin_dial_detect
           /\ Len(dialed_number) >= max_numbers) => dialed_number' = <<>>
       /\ (pc = "list" /\ pc' = "idle")
           => spoken' = <<0>> \o [i \in 1..tracks |-> i]]_vars

\* 1, 2, 4 was dialed with three tracks and the list action has returned
BufferKeptWitness ==
    /\ cmd = "list"
    /\ pc = "idle"
    /\ dialed_number = <<1, 2, 4>>
    /\ spoken = <<0, 1, 2, 3>>
    /\ tracks = 3

\* C13: with the line on-hook no edge of the dial contact or of the pulse
\* contact changes the pulse counter or the dialer state, and no edge of the
\* dial contact changes the buffer or dispatches a command
OnHookEdgesIgnored ==
    [][(pin_phone_hangout = PI_LOW)
       => /\ UNCHANGED <<pulses, dialer_status>>
          /\ (pin_dial_detect' # pin_dial_detect)
              => UNCHANGED <<dialed_number, pc>> /\ cmd' = "none"]_vars

\* C14: a run of dial_detect appends at most one digit, an integer of
\* 0 .. 9, whatever the pulse counter has reached
OneDigitPerRotation ==
    /\ Len(appended) <= 1
    /\ \A i \in 1..Len(appended) : appended[i] \in 0..9

\* The commands of check_number that C15 names
ActionCommands ==
    {"reset", "next", "play_all", "list", "select", "help", "weather"}

\* C15 as stated: every run of dial_detect that dispatches one of these
\* commands has deregistered the three callbacks (the reset branch registers
\* nothing afterwards, so a release would still show when it has returned)
DispatchReleasesAll ==
    [][(RotationCompleted /\ cmd' \in ActionCommands)
       => \A f \in Handlers : registered'[f] = 0]_vars

\* C15: while next-track, play-all, list-titles, track-select, help or
\* weather runs, none of the three callbacks is registered and none of the
\* three handles is live; the reset command runs without touching the
\* registrations
DispatchHoldsGate ==
    /\ [](pc \in DispatchPcs
          => /\ \A f \in Handlers : registered[f] = 0
             /\ ~cb_hangout_handler
             /\ ~cb_dialer_handler
             /\ ~cb_counter_handler)
    /\ [][(RotationCompleted /\ cmd' \in ActionCommands \ {"reset"})
          => pc' \in DispatchPcs \cup {"crashed"}]_vars
    /\ [][(RotationCompleted /\ cmd' = "reset")
          => UNCHANGED <<registered, cb_hangout_handler, cb_dialer_handler,
                         cb_counter_handler, pc>>]_vars

\* The handset was hung up while the weather action was speaking and no
\* handler was told
DispatchHoldsGateWitness ==
    /\ pc = "weather"
    /\ pin_phone_hangout = PI_LOW
    /\ pin_hangout_led = PI_HIGH
    /\ \A f \in Handlers : registered[f] = 0

\* C16: when hangout has handled a transition to on-hook, the buffer is
\* empty, track_position is 0, the ready LED is low, hangout is registered
\* and dial_detect and pulse_count are not; the two are registered again
\* only by the return of the pickup handling
HangupResets ==
    [][/\ (pc = "hangup" /\ pc' = "idle")
           => /\ dialed_number' = <<>>
              /\ track_position' = 0
              /\ pin_hangout_led' = PI_LOW
              /\ registered'["hangout"] > 0
              /\ registered'["dial_detect"] = 0
              /\ registered'["pulse_count"] = 0
       /\ (/\ pc = "idle"
           /\ pin_hangout_led = PI_LOW
           /\ registered["dial_detect"] = 0)
           => registered'["dial_detect"] = 0]_vars

\* C17: every user-facing action that returns (a track, the whole
\* playlist, the list, help, weather, the pickup or hang-up message) has run
\* ampli_on_off exactly twice and leaves is_playing false; whenever no
\* handler runs the amplifier has been toggled an even number of times
AmplifierBracketed ==
    /\ [](pc = "idle" => ~ampli_power)
    /\ [][(pc \in DispatchPcs \cup {"pickup", "hangup"} /\ pc' = "idle")
          => (ampli_runs' = 2 /\ ~is_playing')]_vars

\* The help action has returned
AmplifierBracketedWitness ==
    /\ cmd = "help"
    /\ pc = "idle"
    /\ ampli_runs = 2
    /\ ~is_playing
    /\ ~ampli_power

\* C18: a run of dial_detect on the falling edge of the dial contact with
\* the pulse counter at 0 appends nothing and dispatches nothing; a buffer
\* below capacity, track_position, the registrations and the handler
\* position are unchanged
ZeroPulseIgnored ==
    [][(RotationCompleted /\ pulses = 0)
       => /\ appended' = <<>>
          /\ cmd' = "none"
          /\ Len(dialed_number) < max_numbers
              => dialed_number' = dialed_number
          /\ UNCHANGED <<track_position, registered, cb_hangout_handler,
                         cb_dialer_handler, cb_counter_handler, pc, pulses>>]_vars

\* The digit 3 was queued, then the dial was moved and released without a
\* pulse
ZeroPulseWitness ==
    /\ dialed_number = <<3>>
    /\ pulses = 0
    /\ dialer_status = PI_LOW
    /\ pin_dial_detect = PI_LOW
    /\ pin_phone_hangout = PI_HIGH
    /\ registered["dial_detect"] > 0
    /\ cmd = "none"
    /\ pc = "idle"

\* C19: whenever an action reads the playlist, track_position is an index
\* of it, and no action has ended part-way by an exception
PlaylistIndexInRange ==
    /\ pc \in {"play_track", "pa_track"} => track_position \in 0..(tracks - 1)
    /\ pc # "crashed"

\* C20: when a dispatched action returns and the line has been off-hook for
\* the whole of it, dial_detect and pulse_count are registered again
DialingRestored ==
    [][(ActionReturns /\ pin_phone_hangout = PI_HIGH /\ ~line_dropped)
       => (registered'["dial_detect"] > 0 /\ registered'["pulse_count"] > 0)]_vars

\* C21: a hang-up is handled without a further edge of the line: whenever the
\* line is on-hook and the ready LED is still high (the on-hook handling has
\* not taken place), a handler is running; no step but an edge on an input
\* pin is enabled when pc is "idle"
HangupNeverLost ==
    (pin_phone_hangout = PI_LOW /\ pin_hangout_led = PI_HIGH) => pc # "idle"

\* C22: each of the three callbacks has at most one live registration
SingleRegistration ==
    \A f \in Handlers : registered[f] <= 1

\* The callbacks were released for the weather action and registered again
\* when it returned
SingleRegistrationWitness ==
    /\ cmd = "weather"
    /\ pc = "idle"
    /\ pin_phone_hangout = PI_HIGH
    /\ \A f \in Handlers : registered[f] = 1

\* C23: whenever no handler runs, pin_dial_counter_led is high if and only
\* if dial_detect and pulse_count are registered
DialingLedTracksGate ==
    pc = "idle"
    => ((pin_dial_counter_led = PI_HIGH)
        <=> (registered["dial_detect"] > 0 /\ registered["pulse_count"] > 0))

====
